---- MODULE Spec2Model ----
(***************************************************************************)
(* Model of main.py: the SQLite-backed group store (groups, group_items,   *)
(* settings) and the process-wide catalog cache (TABLE_DATA, LAST_REFRESH) *)
(* read by get_records and cleared by api_update_settings.                 *)
(*                                                                         *)
(* Store functions run one SQLite transaction each and are single steps.   *)
(* get_records and api_update_settings run on request threads that share   *)
(* the module globals without any lock, so they are modelled statement by  *)
(* statement, one step per access to a global or to an outside resource.   *)
(***************************************************************************)
EXTENDS Integers, Naturals, Sequences, FiniteSets, Bags, TLC

(* ------------------------------ bounds -------------------------------- *)
MaxGroupId == 3      \* AUTOINCREMENT ids handed out before add_group is cut off
MaxItem == 2         \* item ids 1..MaxItem
MaxRows == 3         \* rows of group_items before inserts are cut off
NumWorkers == 2      \* request threads
MaxCalls == 3        \* calls of get_records and of the request handlers started
StartTime == 1000    \* time.time() at start-up (far above CACHE_TIMEOUT)
TickStep == 150      \* clock advance per Tick
MaxTicks == 2        \* clock advances
MaxRecords == 102    \* records of the snapshot handed to search_items
MaxPage == 4         \* page numbers -MaxPage..MaxPage are requested

GroupNames == {"A", "B"}
GroupIds == 1..MaxGroupId
ItemIds == 1..MaxItem
Workers == 1..NumWorkers

VARIABLES
    groups,        \* table groups: set of rows [id, name]
    seq,           \* sqlite_sequence entry of groups (largest id ever used)
    group_items,   \* table group_items: bag of rows [group_id, item_id]
    foreign_keys,  \* whether this SQLite build enforces FOREIGN KEY clauses
    last,          \* the last store call: its arguments, result and pre-state
    db_path,       \* settings row 'db_path'
    TABLE_DATA,    \* global TABLE_DATA
    LAST_REFRESH,  \* global LAST_REFRESH
    now,           \* time.time()
    pc,            \* per thread: statement about to run
    frame,         \* per thread: locals of the running handler
    ret,           \* per thread: value returned by the finished handler
    hist,          \* observations of the run used to state properties
    xp,            \* per thread: locals of a running export_word
    calc           \* one evaluation of search_items or of the price formatting

storeVars == <<groups, seq, group_items, foreign_keys, last>>
cacheVars == <<db_path, TABLE_DATA, LAST_REFRESH, now, pc, frame, ret, hist>>
otherVars == <<xp, calc>>
vars == <<groups, seq, group_items, foreign_keys, last,
          db_path, TABLE_DATA, LAST_REFRESH, now, pc, frame, ret, hist, xp, calc>>

(* ============================ group store ============================= *)

\* Outcomes of the store functions.  add_group returns the new id or None;
\* update_group and add_item_to_group return True or False; the deletes
\* return nothing.
NoneId == 0
NoCall == [op |-> "none"]

\* UNIQUE(name) of table groups, as checked by INSERT: some row holds name.
NameTakenNoCheck(rows, name) == FALSE
NameTaken(rows, name) == \E r \in rows : r.name = name

\* UNIQUE(name) as checked by UPDATE ... WHERE id = gid: the statement touches
\* only rows with that id, and fails when the new name is held by another row.
RenameConflict(rows, gid, name) ==
    /\ \E r \in rows : r.id = gid
    /\ \E r \in rows : r.id # gid /\ r.name = name

\* UNIQUE(group_id, item_id) of table group_items.
PairTakenNoCheck(rows, gid, item) == FALSE
PairTaken(rows, gid, item) ==
    BagIn([group_id |-> gid, item_id |-> item], rows)

\* FOREIGN KEY(group_id) REFERENCES groups(id): violated by a row whose
\* group does not exist, when the build enforces foreign keys.
ForeignKeyViolation(rows, gid) ==
    foreign_keys /\ ~ \E r \in rows : r.id = gid

\* Sequence of the elements of a finite set of integers, ascending.
RECURSIVE Ascending(_)
Ascending(S) ==
    IF S = {} THEN <<>>
    ELSE LET m == CHOOSE x \in S : \A y \in S : x <= y
         IN <<m>> \o Ascending(S \ {m})

RECURSIVE Repeat(_, _)
Repeat(x, n) == IF n = 0 THEN <<>> ELSE <<x>> \o Repeat(x, n - 1)

RECURSIVE Flatten(_)
Flatten(ss) == IF ss = <<>> THEN <<>> ELSE Head(ss) \o Flatten(Tail(ss))

\* get_group_items: SELECT item_id FROM group_items WHERE group_id = ?.
\* The query is answered from the index of UNIQUE(group_id, item_id), so the
\* item ids come out ascending, one per stored row.
ItemsOfRows(rows, gid) ==
    LET ids == {i \in ItemIds : BagIn([group_id |-> gid, item_id |-> i], rows)}
        asc == Ascending(ids)
    IN Flatten([k \in 1..Len(asc) |->
            Repeat(asc[k], CopiesIn([group_id |-> gid, item_id |-> asc[k]], rows))])
get_group_items(gid) == ItemsOfRows(group_items, gid)

\* Rows of a bag that satisfy / do not satisfy group_id = gid.
WithoutGroup(rows, gid) ==
    [r \in {x \in BagToSet(rows) : x.group_id # gid} |-> rows[r]]
WithoutPair(rows, gid, item) ==
    [r \in {x \in BagToSet(rows) : ~(x.group_id = gid /\ x.item_id = item)} |-> rows[r]]

add_group(name) ==
    /\ seq < MaxGroupId
    /\ IF NameTaken(groups, name)
       THEN /\ UNCHANGED <<groups, seq>>
            /\ last' = [op |-> "add_group", name |-> name, result |-> NoneId,
                        groups |-> groups, items |-> group_items]
       ELSE /\ groups' = groups \cup {[id |-> seq + 1, name |-> name]}
            /\ seq' = seq + 1
            /\ last' = [op |-> "add_group", name |-> name, result |-> seq + 1,
                        groups |-> groups, items |-> group_items]
    /\ UNCHANGED <<group_items, foreign_keys>>

update_group(gid, name) ==
    /\ IF RenameConflict(groups, gid, name)
       THEN /\ UNCHANGED groups
            /\ last' = [op |-> "update_group", id |-> gid, name |-> name,
                        result |-> FALSE,
                        groups |-> groups, items |-> group_items]
       ELSE /\ groups' = {IF r.id = gid THEN [r EXCEPT !.name = name] ELSE r
                            : r \in groups}
            /\ last' = [op |-> "update_group", id |-> gid, name |-> name,
                        result |-> TRUE,
                        groups |-> groups, items |-> group_items]
    /\ UNCHANGED <<seq, group_items, foreign_keys>>

delete_group(gid) ==
    /\ group_items' = WithoutGroup(group_items, gid)
    /\ groups' = {r \in groups : r.id # gid}
    /\ last' = [op |-> "delete_group", id |-> gid,
                groups |-> groups, items |-> group_items]
    /\ UNCHANGED <<seq, foreign_keys>>

add_item_to_group(gid, item) ==
    /\ BagCardinality(group_items) < MaxRows
    /\ IF PairTaken(group_items, gid, item) \/ ForeignKeyViolation(groups, gid)
       THEN /\ UNCHANGED group_items
            /\ last' = [op |-> "add_item_to_group", id |-> gid, item |-> item,
                        result |-> FALSE,
                        groups |-> groups, items |-> group_items]
       ELSE /\ group_items' =
                   group_items (+) SetToBag({[group_id |-> gid, item_id |-> item]})
            /\ last' = [op |-> "add_item_to_group", id |-> gid, item |-> item,
                        result |-> TRUE,
                        groups |-> groups, items |-> group_items]
    /\ UNCHANGED <<groups, seq, foreign_keys>>

remove_item_from_group(gid, item) ==
    /\ group_items' = WithoutPair(group_items, gid, item)
    /\ last' = [op |-> "remove_item_from_group", id |-> gid, item |-> item,
                groups |-> groups, items |-> group_items]
    /\ UNCHANGED <<groups, seq, foreign_keys>>

\* HTTP status of PUT /groups/<id> and of POST /groups/items, from the
\* result of the store function.
update_group_api(result) == IF result THEN 200 ELSE 400
add_item_to_group_api(result) == IF result THEN 201 ELSE 400

AddGroup == (\E n \in GroupNames : add_group(n)) /\ UNCHANGED <<cacheVars, otherVars>>
UpdateGroup ==
    (\E g \in GroupIds, n \in GroupNames : update_group(g, n)) /\ UNCHANGED <<cacheVars, otherVars>>
DeleteGroup == (\E g \in GroupIds : delete_group(g)) /\ UNCHANGED <<cacheVars, otherVars>>
AddItem ==
    (\E g \in GroupIds, i \in ItemIds : add_item_to_group(g, i)) /\ UNCHANGED <<cacheVars, otherVars>>
RemoveItem ==
    (\E g \in GroupIds, i \in ItemIds : remove_item_from_group(g, i))
    /\ UNCHANGED <<cacheVars, otherVars>>

\* No export_word is running on the thread; no function has been evaluated.
NoExport == [stage |-> "none"]
NoCalc == [fn |-> "none"]

(* =========================== catalog cache ============================ *)

CACHE_TIMEOUT == 300
DefaultPath == "items.DB"
\* Values POST /settings can store in db_path ("" is accepted: only a
\* missing db_path is rejected).
Paths == {"", "items.DB", "new.DB"}

\* A list built by one table-reader call is identified by the location read
\* and the number of the call; the literal [] is EmptyList.
EmptyList == [src |-> "", load |-> 0]
None == <<>>
Empty == <<EmptyList, EmptyList>>        \* return [], []
Listing(path, n) == [src |-> path, load |-> n]

\* Python truthiness of TABLE_DATA: None is false, a 2-tuple is true.
Truthy(v) == v # None

\* get_setting('db_path') or 'items.DB'
PathOrDefault(v) == IF v = "" THEN DefaultPath ELSE v

\* time.time() - LAST_REFRESH < CACHE_TIMEOUT
FreshInclusive(t, stamp) == t - stamp <= CACHE_TIMEOUT
Fresh(t, stamp) == t - stamp < CACHE_TIMEOUT

NoFrame == [op |-> "none", arg |-> <<>>, db_path |-> "",
            records |-> EmptyList, field_names |-> EmptyList]

\* Observations of one call, reset when the call starts.
\* invoked: table-reader calls made; failed: the reader raised; location: the
\* path it was given; known: the last snapshot stored before the reader was
\* called; afterSet: <<p>> when this is the first get_records call started
\* since a settings update to p returned; afterInvalidate: <<v>> when the
\* reader call is the first since line 295 replaced the value v of TABLE_DATA.
NoObs == [invoked |-> 0, failed |-> FALSE, location |-> "", known |-> <<>>,
          afterSet |-> <<>>, afterInvalidate |-> <<>>]

Goto(w, label) == pc' = [pc EXCEPT ![w] = label]

\* ---- get_records, lines 124-148 ----
CallGetRecords(w) ==
    /\ UNCHANGED <<storeVars, otherVars>>
    /\ pc[w] = "idle"
    /\ hist.calls < MaxCalls
    /\ Goto(w, "l128")
    /\ frame' = [frame EXCEPT ![w] = [NoFrame EXCEPT !.op = "get_records"]]
    /\ hist' = [hist EXCEPT !.obs[w] = [NoObs EXCEPT !.afterSet = hist.pending],
                            !.pending = <<>>,
                            !.calls = @ + 1]
    /\ UNCHANGED <<db_path, TABLE_DATA, LAST_REFRESH, now, ret>>

\* line 128, left operand: if TABLE_DATA and ...
CheckData(w) ==
    /\ UNCHANGED <<storeVars, otherVars>>
    /\ pc[w] = "l128"
    /\ Goto(w, IF Truthy(TABLE_DATA) THEN "l128age" ELSE "l132")
    /\ UNCHANGED <<db_path, TABLE_DATA, LAST_REFRESH, now, frame, ret, hist>>

\* line 128, right operand: time.time() - LAST_REFRESH < CACHE_TIMEOUT
CheckAge(w) ==
    /\ UNCHANGED <<storeVars, otherVars>>
    /\ pc[w] = "l128age"
    /\ Goto(w, IF Fresh(now, LAST_REFRESH) THEN "l129" ELSE "l132")
    /\ UNCHANGED <<db_path, TABLE_DATA, LAST_REFRESH, now, frame, ret, hist>>

\* line 129: return TABLE_DATA (the global is read again)
ReturnCached(w) ==
    /\ UNCHANGED <<storeVars, otherVars>>
    /\ pc[w] = "l129"
    /\ ret' = [ret EXCEPT ![w] = TABLE_DATA]
    /\ Goto(w, "done")
    /\ UNCHANGED <<db_path, TABLE_DATA, LAST_REFRESH, now, frame, hist>>

\* line 132: db_path = get_setting('db_path') or 'items.DB'
GetPath(w) ==
    /\ UNCHANGED <<storeVars, otherVars>>
    /\ pc[w] = "l132"
    /\ frame' = [frame EXCEPT ![w].db_path = PathOrDefault(db_path)]
    /\ Goto(w, "l135")
    /\ UNCHANGED <<db_path, TABLE_DATA, LAST_REFRESH, now, ret, hist>>

\* lines 135-142: Table(db_path) is opened and read into the locals records
\* and field_names; any exception leads to line 146.
ReadTable(w) ==
    /\ UNCHANGED <<storeVars, otherVars>>
    /\ pc[w] = "l135"
    /\ \E ok \in BOOLEAN :
        /\ IF ok
           THEN /\ frame' = [frame EXCEPT
                       ![w].records = Listing(frame[w].db_path, hist.reads + 1),
                       ![w].field_names = Listing(frame[w].db_path, hist.reads + 1)]
                /\ Goto(w, "l143")
           ELSE /\ UNCHANGED frame
                /\ Goto(w, "l148")
        /\ hist' = [hist EXCEPT
               !.reads = @ + 1,
               !.first = FALSE,
               !.obs[w].invoked = @ + 1,
               !.obs[w].failed = ~ok,
               !.obs[w].location = frame[w].db_path,
               !.obs[w].known = hist.lastGood,
               !.obs[w].afterInvalidate =
                   IF hist.first THEN <<hist.fallback>> ELSE <<>>]
    /\ UNCHANGED <<db_path, TABLE_DATA, LAST_REFRESH, now, ret>>

\* lines 135-142 when the table reader never completes: the call is made on
\* the caller's thread with no timeout, so the thread stays in it.
ReaderHangs(w) ==
    /\ UNCHANGED <<storeVars, otherVars>>
    /\ pc[w] = "l135"
    /\ Goto(w, "hung")
    /\ hist' = [hist EXCEPT
           !.reads = @ + 1,
           !.first = FALSE,
           !.obs[w].invoked = @ + 1,
           !.obs[w].location = frame[w].db_path,
           !.obs[w].known = hist.lastGood,
           !.obs[w].afterInvalidate =
               IF hist.first THEN <<hist.fallback>> ELSE <<>>]
    /\ UNCHANGED <<db_path, TABLE_DATA, LAST_REFRESH, now, frame, ret>>

\* line 143: TABLE_DATA = (records, field_names)
StoreData(w) ==
    /\ UNCHANGED <<storeVars, otherVars>>
    /\ pc[w] = "l143"
    /\ TABLE_DATA' = <<frame[w].records, frame[w].field_names>>
    /\ hist' = [hist EXCEPT !.lastGood = <<frame[w].records, frame[w].field_names>>]
    /\ Goto(w, "l144")
    /\ UNCHANGED <<db_path, LAST_REFRESH, now, frame, ret>>

\* line 144: LAST_REFRESH = time.time()
StampRefresh(w) ==
    /\ UNCHANGED <<storeVars, otherVars>>
    /\ pc[w] = "l144"
    /\ LAST_REFRESH' = now
    /\ Goto(w, "l145")
    /\ UNCHANGED <<db_path, TABLE_DATA, now, frame, ret, hist>>

\* line 145: return TABLE_DATA (the global is read again)
ReturnLoaded(w) ==
    /\ UNCHANGED <<storeVars, otherVars>>
    /\ pc[w] = "l145"
    /\ ret' = [ret EXCEPT ![w] = TABLE_DATA]
    /\ Goto(w, "done")
    /\ UNCHANGED <<db_path, TABLE_DATA, LAST_REFRESH, now, frame, hist>>

\* lines 146-148: except Exception: ... return [], []
ReturnEmpty(w) ==
    /\ UNCHANGED <<storeVars, otherVars>>
    /\ pc[w] = "l148"
    /\ ret' = [ret EXCEPT ![w] = Empty]
    /\ Goto(w, "done")
    /\ UNCHANGED <<db_path, TABLE_DATA, LAST_REFRESH, now, frame, hist>>

\* ---- api_update_settings, lines 285-298 ----
\* arg is <<>> when the request carries no db_path, else <<value>>.
CallUpdateSettings(w) ==
    /\ UNCHANGED <<storeVars, otherVars>>
    /\ pc[w] = "idle"
    /\ \E a \in {<<>>} \cup {<<p>> : p \in Paths} :
        frame' = [frame EXCEPT ![w] = [NoFrame EXCEPT !.op = "api_update_settings",
                                                      !.arg = a]]
    /\ hist.calls < MaxCalls
    /\ hist' = [hist EXCEPT !.obs[w] = NoObs, !.calls = @ + 1]
    /\ Goto(w, "l288")
    /\ UNCHANGED <<db_path, TABLE_DATA, LAST_REFRESH, now, ret>>

\* lines 288-289: if db_path is None: return ..., 400
RejectMissing(w) ==
    /\ UNCHANGED <<storeVars, otherVars>>
    /\ pc[w] = "l288"
    /\ frame[w].arg = <<>>
    /\ ret' = [ret EXCEPT ![w] = <<400>>]
    /\ Goto(w, "done")
    /\ UNCHANGED <<db_path, TABLE_DATA, LAST_REFRESH, now, frame, hist>>

\* line 291: set_setting('db_path', db_path)
SetSetting(w) ==
    /\ UNCHANGED <<storeVars, otherVars>>
    /\ pc[w] = "l288"
    /\ frame[w].arg # <<>>
    /\ db_path' = frame[w].arg[1]
    /\ Goto(w, "l295")
    /\ UNCHANGED <<TABLE_DATA, LAST_REFRESH, now, frame, ret, hist>>

\* line 295: TABLE_DATA = None
ClearData(w) ==
    /\ UNCHANGED <<storeVars, otherVars>>
    /\ pc[w] = "l295"
    /\ TABLE_DATA' = None
    /\ hist' = [hist EXCEPT !.fallback = TABLE_DATA, !.first = TRUE]
    /\ Goto(w, "l296")
    /\ UNCHANGED <<db_path, LAST_REFRESH, now, frame, ret>>

\* line 296: LAST_REFRESH = 0
ClearStamp(w) ==
    /\ UNCHANGED <<storeVars, otherVars>>
    /\ pc[w] = "l296"
    /\ LAST_REFRESH' = 0
    /\ Goto(w, "l298")
    /\ UNCHANGED <<db_path, TABLE_DATA, now, frame, ret, hist>>

\* line 298: return ..., 200
ReturnUpdated(w) ==
    /\ UNCHANGED <<storeVars, otherVars>>
    /\ pc[w] = "l298"
    /\ ret' = [ret EXCEPT ![w] = <<200>>]
    /\ hist' = [hist EXCEPT !.pending = frame[w].arg]
    /\ Goto(w, "done")
    /\ UNCHANGED <<db_path, TABLE_DATA, LAST_REFRESH, now, frame>>

\* The caller takes the returned value; the thread is free again.
Return(w) ==
    /\ UNCHANGED <<storeVars, otherVars>>
    /\ pc[w] = "done"
    /\ xp[w].stage = "none"
    /\ Goto(w, "idle")
    /\ frame' = [frame EXCEPT ![w] = NoFrame]
    /\ ret' = [ret EXCEPT ![w] = None]
    /\ hist' = [hist EXCEPT !.obs[w] = NoObs]
    /\ UNCHANGED <<db_path, TABLE_DATA, LAST_REFRESH, now>>

\* The clock advances.
Tick ==
    /\ UNCHANGED <<storeVars, otherVars>>
    /\ now < StartTime + MaxTicks * TickStep
    /\ now' = now + TickStep
    /\ UNCHANGED <<db_path, TABLE_DATA, LAST_REFRESH, pc, frame, ret, hist>>

(* ============================ search_items ============================ *)

\* Text is a sequence of one-character strings.
per_page == 50

\* str.lower() on the letters that occur in the inputs.
LowerChar(c) == IF c = "A" THEN "a" ELSE IF c = "B" THEN "b" ELSE c
Lower(text) == [i \in 1..Len(text) |-> LowerChar(text[i])]

\* str() of a non-negative integer.
DigitChar(d) == <<"0", "1", "2", "3", "4", "5", "6", "7", "8", "9">>[d + 1]
RECURSIVE Digits(_)
Digits(n) == IF n < 10 THEN <<DigitChar(n)>>
             ELSE Digits(n \div 10) \o <<DigitChar(n % 10)>>

\* q in text
Contains(text, q) ==
    \E i \in 0..(Len(text) - Len(q)) : SubSeq(text, i + 1, i + Len(q)) = q

\* record.get(field, ''), formatted into text; the id is an integer.
FieldText(rec, field) ==
    IF field \notin DOMAIN rec THEN <<>>
    ELSE IF field = "id" THEN Digits(rec.id) ELSE rec[field]

\* line 184: the five fields joined by single spaces, lower-cased.
search_text(rec) ==
    Lower(FieldText(rec, "id") \o <<" ">> \o FieldText(rec, "Code") \o <<" ">>
          \o FieldText(rec, "Item") \o <<" ">> \o FieldText(rec, "ClientPrice")
          \o <<" ">> \o FieldText(rec, "Vendor"))

\* lines 180-189: the records kept by the query, in snapshot order.
Matches(rec, query) == Contains(search_text(rec), query)
Filtered(records, query) ==
    IF query # <<>>
    THEN LET Keep(rec) == Matches(rec, query) IN SelectSeq(records, Keep)
    ELSE records

\* A Python slice bound: negative bounds count from the end, and bounds
\* outside the list are clamped.
SliceBound(i, len) ==
    IF i < 0 THEN (IF i + len < 0 THEN 0 ELSE i + len)
    ELSE IF i > len THEN len ELSE i
\* list[start:end]
Slice(list, start, end) ==
    LET lo == SliceBound(start, Len(list))
        hi == SliceBound(end, Len(list))
    IN IF lo < hi THEN SubSeq(list, lo + 1, hi) ELSE <<>>

\* lines 198-207: projection of a record onto the six listed fields.
Projection(rec) ==
    [f \in {"id", "Code", "Item", "ClientPrice", "Vendor", "VendorPrice"} |->
        FieldText(rec, f)]

\* lines 174-215, given the snapshot returned by get_records.
search_items(records, q, page) ==
    LET query == Lower(q)
        filtered == Filtered(records, query)
        total == Len(filtered)
        start == (page - 1) * per_page
        end == start + per_page
        paginated == Slice(filtered, start, end)
    IN [results |-> [i \in 1..Len(paginated) |-> Projection(paginated[i])],
        total |-> total,
        page |-> page,
        per_page |-> per_page,
        total_pages |-> (total + per_page - 1) \div per_page,
        status |-> 200]

\* Snapshots and requests search_items is evaluated on: n records with ids
\* 1..n, the even ones named "Ab" and the odd ones "b".
SearchRecord(i) == [id |-> i, Item |-> IF i % 2 = 0 THEN <<"A", "b">> ELSE <<"b">>]
SearchSnapshot(n) == [i \in 1..n |-> SearchRecord(i)]
Queries == {<<>>, <<"a">>, <<"B">>, <<"z">>, <<"1", "0">>}
Pages == (-MaxPage)..MaxPage

RequestSearch ==
    /\ calc = NoCalc
    /\ \E n \in 0..MaxRecords, q \in Queries, page \in Pages :
          calc' = [fn |-> "search_items", stage |-> "request",
                   n |-> n, q |-> q, page |-> page]
    /\ UNCHANGED <<storeVars, cacheVars, xp>>

SearchItems ==
    /\ calc.fn = "search_items"
    /\ calc.stage = "request"
    /\ calc' = [fn |-> "search_items", stage |-> "done",
                n |-> calc.n, q |-> calc.q, page |-> calc.page,
                out |-> search_items(SearchSnapshot(calc.n), calc.q, calc.page)]
    /\ UNCHANGED <<storeVars, cacheVars, xp>>

NextSearch ==
    \/ RequestSearch
    \/ SearchItems

(* ======================= export_word: one row's prices ================ *)

DigitChars == {"0", "1", "2", "3", "4", "5", "6", "7", "8", "9"}
DigitValue(c) == CHOOSE d \in 0..9 : DigitChar(d) = c
IsDigits(text) == \A i \in 1..Len(text) : text[i] \in DigitChars

RECURSIVE NumberOf(_)
NumberOf(text) ==
    IF text = <<>> THEN 0
    ELSE 10 * NumberOf(SubSeq(text, 1, Len(text) - 1)) + DigitValue(text[Len(text)])

\* str.strip() as float() applies it to its argument.
RECURSIVE Strip(_)
Strip(text) ==
    IF text # <<>> /\ Head(text) = " " THEN Strip(Tail(text))
    ELSE IF text # <<>> /\ text[Len(text)] = " "
         THEN Strip(SubSeq(text, 1, Len(text) - 1))
    ELSE text

\* float(text) for plain decimal text of at most four fractional digits: an
\* optional sign, digits with at most one point and at least one digit.
\* The result is [ok, neg, mag] with the magnitude in units of 0.0001; ok is
\* FALSE where float raises ValueError.
ParseFloat(text) ==
    LET t == Strip(text)
        signed == t # <<>> /\ t[1] \in {"+", "-"}
        body == IF signed THEN Tail(t) ELSE t
        points == {i \in 1..Len(body) : body[i] = "."}
        cut == IF points = {} THEN Len(body) + 1 ELSE CHOOSE i \in points : TRUE
        whole == SubSeq(body, 1, cut - 1)
        frac == SubSeq(body, cut + 1, Len(body))
        frac4 == SubSeq(frac \o <<"0", "0", "0", "0">>, 1, 4)
        ok == /\ Cardinality(points) <= 1
              /\ IsDigits(whole) /\ IsDigits(frac)
              /\ Len(whole) + Len(frac) >= 1
    IN IF ok
       THEN [ok |-> TRUE, neg |-> (signed /\ t[1] = "-"),
             mag |-> 10000 * NumberOf(whole) + NumberOf(frac4)]
       ELSE [ok |-> FALSE, neg |-> FALSE, mag |-> 0]

Zero == [ok |-> TRUE, neg |-> FALSE, mag |-> 0]     \* 0.0

\* f"{x:.4f}"
Format4(x) ==
    LET cents == Digits(x.mag % 10000)
        padded == SubSeq(<<"0", "0", "0">>, 1, 4 - Len(cents)) \o cents
    IN (IF x.neg THEN <<"-">> ELSE <<>>) \o Digits(x.mag \div 10000) \o <<".">>
       \o padded

\* A field of a record: absent, None (a blank field of the table), or text.
Absent == [kind |-> "absent"]
NoneValue == [kind |-> "None"]
TextValue(t) == [kind |-> "text", text |-> t]

\* float(item.get(field, '0.0000')): the number, or the exception raised.
FloatOf(v) ==
    IF v.kind = "None" THEN [raised |-> "TypeError"]
    ELSE LET x == ParseFloat(IF v.kind = "absent"
                             THEN <<"0", ".", "0", "0", "0", "0">> ELSE v.text)
         IN IF x.ok THEN [raised |-> "no", value |-> x]
            ELSE [raised |-> "ValueError"]

\* What the except clause of lines 411-413 catches.
Caught(c, v) == c.raised = "ValueError" \/ (c.raised = "no" /\ v.raised = "ValueError")

\* lines 408-419: the two price cells of a row, or the exception that
\* leaves export_word.
row_prices(client, vendor) ==
    LET c == FloatOf(client)
        v == FloatOf(vendor)
    IN IF c.raised = "TypeError" \/ (c.raised = "no" /\ v.raised = "TypeError")
       THEN [raised |-> "TypeError"]
       ELSE IF Caught(c, v)
       THEN [raised |-> "no", client |-> Format4(Zero), vendor |-> Format4(Zero)]
       ELSE IF c.raised = "no" /\ v.raised = "no"
       THEN [raised |-> "no", client |-> Format4(c.value), vendor |-> Format4(v.value)]
       ELSE [raised |-> "ValueError"]

PriceTexts ==
    {<<"1", ".", "5">>, <<"a", "b", "c">>, <<"2">>, <<"0", ".", "1", "2", "3", "4">>,
     <<"-", "3", ".", "2", "5">>, <<>>, <<" ", "7", " ">>, <<".", "5">>,
     <<"1", ".", "2", ".", "3">>, <<"+">>, <<"1", "2", ".">>}
PriceValues == {Absent, NoneValue} \cup {TextValue(t) : t \in PriceTexts}

RequestPrices ==
    /\ calc = NoCalc
    /\ \E c \in PriceValues, v \in PriceValues :
          calc' = [fn |-> "row_prices", stage |-> "request",
                   client |-> c, vendor |-> v]
    /\ UNCHANGED <<storeVars, cacheVars, xp>>

RowPrices ==
    /\ calc.fn = "row_prices"
    /\ calc.stage = "request"
    /\ calc' = [fn |-> "row_prices", stage |-> "done",
                client |-> calc.client, vendor |-> calc.vendor,
                out |-> row_prices(calc.client, calc.vendor)]
    /\ UNCHANGED <<storeVars, cacheVars, xp>>

NextPrices ==
    \/ RequestPrices
    \/ RowPrices

(* ============================ export_word ============================= *)

\* get_groups: SELECT id, name FROM groups ORDER BY name.
NameRank(name) == IF name = "A" THEN 1 ELSE 2
RECURSIVE ByName(_)
ByName(rows) ==
    IF rows = {} THEN <<>>
    ELSE LET g == CHOOSE x \in rows :
                      \A y \in rows : NameRank(x.name) <= NameRank(y.name)
         IN <<g>> \o ByName(rows \ {g})
get_groups == ByName(groups)

\* line 305: group_ids = [group['id'] for group in groups_data]
group_ids(groups_data) == [k \in 1..Len(groups_data) |-> groups_data[k].id]

\* line 307: if not group_ids
NoGroupsNever(ids) == FALSE
NoGroups(ids) == ids = <<>>

\* The ids of the records of the table at a location: items.DB holds record
\* 2 only, new.DB every item.  The literal [] holds none.
TableIds(path) == IF path = "new.DB" THEN ItemIds ELSE {2}
\* line 312: the keys of records_dict = {str(r['id']): r for r in records}
records_dict(records) == IF records = EmptyList THEN {} ELSE TableIds(records.src)

\* The records a row of the export is looked up in: the dictionary built at
\* line 312 from the list returned at line 311.
ExportSourceLive(w) == IF TABLE_DATA = None THEN EmptyList ELSE TABLE_DATA[1]
ExportSource(w) == xp[w].records

\* line 403: f'{group_idx+1}.{item_idx+1}'
item_number_from_zero(group_idx, item_idx) == <<group_idx + 1, item_idx>>
item_number(group_idx, item_idx) == <<group_idx + 1, item_idx + 1>>

\* lines 397-420: the rows added for item_ids; an id that is not in the
\* dictionary adds none (line 399: if not item: continue).
TableRows(group_idx, item_ids, records) ==
    LET all == [k \in 1..Len(item_ids) |->
                   [number |-> item_number(group_idx, k - 1),
                    item |-> item_ids[k], from |-> records]]
        Found(row) == row.item \in records_dict(records)
    IN SelectSeq(all, Found)

\* lines 369-422, one iteration of the loop over groups_data: nothing for a
\* group without member rows (lines 372-373), else the header paragraph
\* (line 376) and the table.
Section(group_idx, group, item_ids, records) ==
    IF item_ids = <<>> THEN <<>>
    ELSE <<[number |-> group_idx + 1, name |-> group.name, id |-> group.id,
            rows |-> TableRows(group_idx, item_ids, records)]>>

ExportLocals == [stage |-> "running", groups_data |-> <<>>, gets |-> 0,
                 records |-> EmptyList, group_idx |-> 0, doc |-> <<>>]

\* GET /export_word arrives on a free thread.
CallExport(w) ==
    /\ pc[w] = "idle"
    /\ hist.calls < MaxCalls
    /\ Goto(w, "l304")
    /\ frame' = [frame EXCEPT ![w] = [NoFrame EXCEPT !.op = "export_word"]]
    /\ xp' = [xp EXCEPT ![w] = ExportLocals]
    /\ hist' = [hist EXCEPT !.obs[w] = NoObs, !.calls = @ + 1]
    /\ UNCHANGED <<storeVars, calc, db_path, TABLE_DATA, LAST_REFRESH, now, ret>>

\* line 304: groups_data = get_groups()
ExportGetGroups(w) ==
    /\ pc[w] = "l304"
    /\ xp' = [xp EXCEPT ![w].groups_data = get_groups]
    /\ Goto(w, "l307")
    /\ UNCHANGED <<storeVars, calc, db_path, TABLE_DATA, LAST_REFRESH, now,
                   frame, ret, hist>>

\* lines 307-308: return "No groups found", 404
ExportNoGroups(w) ==
    /\ pc[w] = "l307"
    /\ NoGroups(group_ids(xp[w].groups_data))
    /\ ret' = [ret EXCEPT ![w] = <<404>>]
    /\ xp' = [xp EXCEPT ![w].stage = "finished"]
    /\ Goto(w, "done")
    /\ UNCHANGED <<storeVars, calc, db_path, TABLE_DATA, LAST_REFRESH, now,
                   frame, hist>>

\* line 311, the call: get_records() starts on this thread.
ExportCallGetRecords(w) ==
    /\ pc[w] = "l307"
    /\ ~ NoGroups(group_ids(xp[w].groups_data))
    /\ hist.calls < MaxCalls
    /\ xp' = [xp EXCEPT ![w].gets = @ + 1]
    /\ Goto(w, "l128")
    /\ frame' = [frame EXCEPT ![w] = [NoFrame EXCEPT !.op = "get_records"]]
    /\ hist' = [hist EXCEPT !.obs[w] = [NoObs EXCEPT !.afterSet = hist.pending],
                            !.pending = <<>>,
                            !.calls = @ + 1]
    /\ UNCHANGED <<storeVars, calc, db_path, TABLE_DATA, LAST_REFRESH, now, ret>>

\* line 311, the assignment records, field_names = <returned value>, and
\* line 312.  Unpacking None raises TypeError, which ends the request with
\* status 500.
ExportUnpack(w) ==
    /\ pc[w] = "done"
    /\ frame[w].op = "get_records"
    /\ xp[w].stage = "running"
    /\ frame' = [frame EXCEPT ![w] = [NoFrame EXCEPT !.op = "export_word"]]
    /\ IF ret[w] = None
       THEN /\ ret' = [ret EXCEPT ![w] = <<500>>]
            /\ xp' = [xp EXCEPT ![w].stage = "finished"]
            /\ UNCHANGED pc
       ELSE /\ ret' = [ret EXCEPT ![w] = None]
            /\ xp' = [xp EXCEPT ![w].records = ret[w][1]]
            /\ Goto(w, "l369")
    /\ UNCHANGED <<storeVars, calc, db_path, TABLE_DATA, LAST_REFRESH, now, hist>>

\* lines 369-422: one iteration of for group_idx, group in enumerate(groups_data)
ExportGroup(w) ==
    /\ pc[w] = "l369"
    /\ xp[w].group_idx < Len(xp[w].groups_data)
    /\ LET group == xp[w].groups_data[xp[w].group_idx + 1]
           item_ids == get_group_items(group.id)
       IN xp' = [xp EXCEPT
              ![w].doc = @ \o Section(xp[w].group_idx, group, item_ids,
                                      ExportSource(w)),
              ![w].group_idx = @ + 1]
    /\ UNCHANGED <<storeVars, calc, cacheVars>>

\* lines 423-446: footer, save, return send_file(...)
ExportSend(w) ==
    /\ pc[w] = "l369"
    /\ xp[w].group_idx = Len(xp[w].groups_data)
    /\ ret' = [ret EXCEPT ![w] = <<200>>]
    /\ xp' = [xp EXCEPT ![w].stage = "finished"]
    /\ Goto(w, "done")
    /\ UNCHANGED <<storeVars, calc, db_path, TABLE_DATA, LAST_REFRESH, now,
                   frame, hist>>

\* The response is sent; the thread is free again.
ExportReturn(w) ==
    /\ pc[w] = "done"
    /\ xp[w].stage = "finished"
    /\ Goto(w, "idle")
    /\ frame' = [frame EXCEPT ![w] = NoFrame]
    /\ ret' = [ret EXCEPT ![w] = None]
    /\ xp' = [xp EXCEPT ![w] = NoExport]
    /\ hist' = [hist EXCEPT !.obs[w] = NoObs]
    /\ UNCHANGED <<storeVars, calc, db_path, TABLE_DATA, LAST_REFRESH, now>>

\* Group stores the export is run on, each left by calls of the store
\* functions: no group; B (id 1) with items 1 and 2 and A (id 2) with item
\* 1; B (id 1) with item 2 and A (id 2) with no item.
Pair(gid, item) == [group_id |-> gid, item_id |-> item]
TwoGroups == {[id |-> 1, name |-> "B"], [id |-> 2, name |-> "A"]}
ExportStores ==
    {[groups |-> {}, seq |-> 0, items |-> EmptyBag],
     [groups |-> TwoGroups, seq |-> 2,
      items |-> SetToBag({Pair(1, 1), Pair(1, 2), Pair(2, 1)})],
     [groups |-> TwoGroups, seq |-> 2, items |-> SetToBag({Pair(1, 2)})]}

(* =========================== specifications =========================== *)

\* init_db on an empty app.db, and the module globals of lines 120-121.
Init ==
    /\ groups = {}
    /\ seq = 0
    /\ group_items = EmptyBag
    /\ foreign_keys \in BOOLEAN
    /\ last = NoCall
    /\ db_path = DefaultPath
    /\ TABLE_DATA = None
    /\ LAST_REFRESH = 0
    /\ now = StartTime
    /\ pc = [w \in Workers |-> "idle"]
    /\ frame = [w \in Workers |-> NoFrame]
    /\ ret = [w \in Workers |-> None]
    /\ hist = [calls |-> 0, reads |-> 0, lastGood |-> None, pending |-> <<>>,
               fallback |-> None, first |-> FALSE,
               obs |-> [w \in Workers |-> NoObs]]
    /\ xp = [w \in Workers |-> NoExport]
    /\ calc = NoCalc

NextStore ==
    \/ AddGroup
    \/ UpdateGroup
    \/ DeleteGroup
    \/ AddItem
    \/ RemoveItem

NextCache ==
    \/ \E w \in Workers : CallGetRecords(w)
    \/ \E w \in Workers : CheckData(w)
    \/ \E w \in Workers : CheckAge(w)
    \/ \E w \in Workers : ReturnCached(w)
    \/ \E w \in Workers : GetPath(w)
    \/ \E w \in Workers : ReadTable(w)
    \/ \E w \in Workers : StoreData(w)
    \/ \E w \in Workers : StampRefresh(w)
    \/ \E w \in Workers : ReturnLoaded(w)
    \/ \E w \in Workers : ReturnEmpty(w)
    \/ \E w \in Workers : CallUpdateSettings(w)
    \/ \E w \in Workers : RejectMissing(w)
    \/ \E w \in Workers : SetSetting(w)
    \/ \E w \in Workers : ClearData(w)
    \/ \E w \in Workers : ClearStamp(w)
    \/ \E w \in Workers : ReturnUpdated(w)
    \/ \E w \in Workers : Return(w)
    \/ Tick

\* The steps of get_records that thread w takes on its own once it has been
\* called: every statement but a table-reader call that never completes.
Proceed(w) ==
    \/ CheckData(w)
    \/ CheckAge(w)
    \/ ReturnCached(w)
    \/ GetPath(w)
    \/ ReadTable(w)
    \/ StoreData(w)
    \/ StampRefresh(w)
    \/ ReturnLoaded(w)
    \/ ReturnEmpty(w)

NextHung ==
    \/ NextCache
    \/ \E w \in Workers : ReaderHangs(w)

\* export_word next to get_records and api_update_settings on the other
\* threads, within one CACHE_TIMEOUT (the clock stands still).
NextExport ==
    \/ \E w \in Workers : CallGetRecords(w)
    \/ \E w \in Workers : CheckData(w)
    \/ \E w \in Workers : CheckAge(w)
    \/ \E w \in Workers : ReturnCached(w)
    \/ \E w \in Workers : GetPath(w)
    \/ \E w \in Workers : ReadTable(w)
    \/ \E w \in Workers : StoreData(w)
    \/ \E w \in Workers : StampRefresh(w)
    \/ \E w \in Workers : ReturnLoaded(w)
    \/ \E w \in Workers : ReturnEmpty(w)
    \/ \E w \in Workers : CallUpdateSettings(w)
    \/ \E w \in Workers : RejectMissing(w)
    \/ \E w \in Workers : SetSetting(w)
    \/ \E w \in Workers : ClearData(w)
    \/ \E w \in Workers : ClearStamp(w)
    \/ \E w \in Workers : ReturnUpdated(w)
    \/ \E w \in Workers : Return(w)
    \/ \E w \in Workers : CallExport(w)
    \/ \E w \in Workers : ExportGetGroups(w)
    \/ \E w \in Workers : ExportNoGroups(w)
    \/ \E w \in Workers : ExportCallGetRecords(w)
    \/ \E w \in Workers : ExportUnpack(w)
    \/ \E w \in Workers : ExportGroup(w)
    \/ \E w \in Workers : ExportSend(w)
    \/ \E w \in Workers : ExportReturn(w)

InitExport ==
    /\ \E st \in ExportStores :
          /\ groups = st.groups
          /\ seq = st.seq
          /\ group_items = st.items
    /\ foreign_keys = FALSE
    /\ last = NoCall
    /\ db_path = DefaultPath
    /\ TABLE_DATA = None
    /\ LAST_REFRESH = 0
    /\ now = StartTime
    /\ pc = [w \in Workers |-> "idle"]
    /\ frame = [w \in Workers |-> NoFrame]
    /\ ret = [w \in Workers |-> None]
    /\ hist = [calls |-> 0, reads |-> 0, lastGood |-> None, pending |-> <<>>,
               fallback |-> None, first |-> FALSE,
               obs |-> [w \in Workers |-> NoObs]]
    /\ xp = [w \in Workers |-> NoExport]
    /\ calc = NoCalc

Next == NextStore \/ NextCache

SpecStore == Init /\ [][NextStore]_vars
SpecCache == Init /\ [][NextCache]_vars
SpecSearch == Init /\ [][NextSearch]_vars
SpecPrices == Init /\ [][NextPrices]_vars
\* Every thread that is inside get_records keeps running.
SpecHung == Init /\ [][NextHung]_vars /\ \A w \in Workers : WF_vars(Proceed(w))
SpecExport == InitExport /\ [][NextExport]_vars
Spec == Init /\ [][Next]_vars

(* ============================= properties ============================= *)

Returned(w) == pc[w] = "done" /\ frame[w].op = "get_records"
UnknownId(rows, gid) == ~ \E r \in rows : r.id = gid
NoRepeats(sq) == \A i, j \in 1..Len(sq) : sq[i] = sq[j] => i = j

\* C1: a get_records call whose table-reader call failed returns the last
\* snapshot that had been loaded when the reader was called, and returns the
\* empty snapshot only when none had been loaded.
C1_StaleFallback ==
    \A w \in Workers :
        (Returned(w) /\ hist.obs[w].failed) =>
            ret[w] = (IF hist.obs[w].known # None THEN hist.obs[w].known ELSE Empty)

\* C2: the first get_records call started after a settings update to p has
\* returned invokes the table reader, and gives it the location p (while p
\* is still the stored setting).
C2_RereadAfterSet ==
    \A w \in Workers :
        (Returned(w) /\ hist.obs[w].afterSet # <<>>
                     /\ db_path = hist.obs[w].afterSet[1]) =>
            /\ hist.obs[w].invoked >= 1
            /\ hist.obs[w].location = hist.obs[w].afterSet[1]

\* C3: two get_records calls that are in progress at the same time invoke the
\* table reader at most once between them, and when both found no fresh
\* snapshot they return the same value.
C3_SingleFlight ==
    \A v, w \in Workers :
        (v # w /\ frame[v].op = "get_records" /\ frame[w].op = "get_records") =>
            /\ hist.obs[v].invoked + hist.obs[w].invoked <= 1
            /\ (pc[v] = "done" /\ pc[w] = "done"
                /\ hist.obs[v].invoked + hist.obs[w].invoked >= 1
                /\ ret[v] # None /\ ret[w] # None
                /\ ret[v][1].load # 0 /\ ret[w][1].load # 0) => ret[v] = ret[w]

\* C4: every get_records call returns a pair (records, field_names) whose
\* two parts come from the same table-reader call, or the empty pair; never
\* None.
C4_UsableSnapshot ==
    \A w \in Workers :
        Returned(w) =>
            /\ ret[w] # None
            /\ Len(ret[w]) = 2
            /\ ret[w][1] = ret[w][2]

\* C5: when the first table-reader call after line 295 cleared a snapshot
\* fails, get_records returns the snapshot that line 295 cleared.
C5_InvalidateKeepsFallback ==
    \A w \in Workers :
        (Returned(w) /\ hist.obs[w].failed
                     /\ hist.obs[w].afterInvalidate # <<>>
                     /\ hist.obs[w].afterInvalidate[1] # None) =>
            ret[w] = hist.obs[w].afterInvalidate[1]

\* C6: no two rows of groups share a name; add_group with a name already
\* held returns None, update_group of an existing group to a name held by
\* another group returns False, and both leave the table as it was.
C6_GroupNamesUnique ==
    /\ \A r, t \in groups : r.name = t.name => r = t
    /\ (last.op = "add_group" /\ (\E r \in last.groups : r.name = last.name)) =>
           (last.result = NoneId /\ groups = last.groups)
    /\ (last.op = "update_group"
        /\ (\E r \in last.groups : r.id = last.id)
        /\ (\E r \in last.groups : r.id # last.id /\ r.name = last.name)) =>
           (last.result = FALSE /\ groups = last.groups)

\* A duplicate add_group and a duplicate rename have both been refused.
C6_Witness ==
    /\ last.op \in {"add_group", "update_group"}
    /\ \E r \in last.groups :
          r.name = last.name /\ (last.op = "update_group" =>
                                   (r.id # last.id /\ ~ UnknownId(last.groups, last.id)))
    /\ Cardinality(groups) >= 2

\* C7: update_group with an id that names no group does not report success
\* (PUT /groups/<id> does not answer 200).
C7_UnknownIdNotSuccess ==
    (last.op = "update_group" /\ UnknownId(last.groups, last.id)) =>
        (last.result = FALSE /\ update_group_api(last.result) # 200)

\* C8: add_item_to_group with a group_id that names no group fails and adds
\* no row to group_items.
C8_NoMemberOfMissingGroup ==
    (last.op = "add_item_to_group" /\ UnknownId(last.groups, last.id)) =>
        (last.result = FALSE
         /\ add_item_to_group_api(last.result) # 201
         /\ group_items = last.items)

\* C9: every (group_id, item_id) row is stored once; add_item_to_group for a
\* stored pair returns False and leaves group_items as it was; and
\* get_group_items lists no item id twice.
C9_PairsUnique ==
    /\ \A r \in BagToSet(group_items) : CopiesIn(r, group_items) = 1
    /\ (last.op = "add_item_to_group"
        /\ BagIn([group_id |-> last.id, item_id |-> last.item], last.items)) =>
           (last.result = FALSE /\ group_items = last.items)
    /\ \A g \in GroupIds : NoRepeats(get_group_items(g))

\* A stored pair was added again and refused, next to another stored pair.
C9_Witness ==
    /\ last.op = "add_item_to_group"
    /\ BagIn([group_id |-> last.id, item_id |-> last.item], last.items)
    /\ last.result = FALSE
    /\ Len(get_group_items(last.id)) >= 2

\* C10: after delete_group(id) the group is gone, get_group_items(id) is
\* empty, every other group and every membership of another group is as it
\* was, and for an id that named no group nothing has changed.
C10_DeleteGroup ==
    last.op = "delete_group" =>
        /\ UnknownId(groups, last.id)
        /\ get_group_items(last.id) = <<>>
        /\ groups = {r \in last.groups : r.id # last.id}
        /\ group_items = WithoutGroup(last.items, last.id)
        /\ UnknownId(last.groups, last.id) =>
               (groups = last.groups /\ group_items = last.items)

\* C20: the group_id of every row of group_items is the id of a row of
\* groups.
C20_NoOrphanMembership ==
    \A r \in BagToSet(group_items) : \E g \in groups : g.id = r.group_id

\* C13: for a page number outside 1..total_pages (greater than total_pages,
\* zero or negative) search_items answers 200 with an empty results list.
C13_OutOfRangePageEmpty ==
    (calc.fn = "search_items" /\ calc.stage = "done"
     /\ (calc.page > calc.out.total_pages \/ calc.page <= 0)) =>
        (calc.out.results = <<>> /\ calc.out.status = 200)

\* The rendering the claim gives one price: its number with four fractional
\* digits when it parses, 0.0000 when it does not.
OwnRendering(v) ==
    LET x == FloatOf(v)
    IN IF x.raised = "no" THEN Format4(x.value) ELSE Format4(Zero)
FourFractionDigits(text) ==
    /\ Len(text) >= 6
    /\ text[Len(text) - 4] = "."
    /\ IsDigits(SubSeq(text, Len(text) - 3, Len(text)))

\* C17: a row's two prices are each rendered on their own: the number with
\* exactly four fractional digits when the value parses, 0.0000 when it does
\* not, without an error, whatever the other price is.
C17_PricesRenderedSeparately ==
    (calc.fn = "row_prices" /\ calc.stage = "done") =>
        /\ calc.out.raised = "no"
        /\ calc.out.client = OwnRendering(calc.client)
        /\ calc.out.vendor = OwnRendering(calc.vendor)
        /\ FourFractionDigits(calc.out.client)
        /\ FourFractionDigits(calc.out.vendor)

\* C15: once a snapshot has been loaded, every get_records call in progress
\* eventually returns, also when a table-reader call never completes.
C15_CallsReturnDespiteHang ==
    \A w \in Workers :
        (frame[w].op = "get_records" /\ hist.lastGood # None) ~> (pc[w] = "done")

\* C16: a get_records call that finds a snapshot whose age, now minus
\* LAST_REFRESH, is below CACHE_TIMEOUT returns the cached value without
\* calling the table reader and without touching the cache; a call that
\* finds no snapshot, or an age of CACHE_TIMEOUT or more, calls the table
\* reader once, and on success stores what it loaded as the snapshot and
\* sets LAST_REFRESH to the current time.
C16_TTLFreshness ==
    [][\A w \in Workers :
        (frame[w].op = "get_records" /\ pc'[w] # pc[w]) =>
            /\ pc[w] = "l128" =>
                   pc'[w] = (IF TABLE_DATA = None THEN "l132" ELSE "l128age")
            /\ pc[w] = "l128age" =>
                   pc'[w] = (IF now - LAST_REFRESH < CACHE_TIMEOUT
                             THEN "l129" ELSE "l132")
            /\ pc[w] = "l129" =>
                   /\ pc'[w] = "done"
                   /\ ret'[w] = TABLE_DATA
                   /\ hist'.obs[w].invoked = 0
                   /\ hist'.reads = hist.reads
                   /\ TABLE_DATA' = TABLE_DATA
                   /\ LAST_REFRESH' = LAST_REFRESH
            /\ pc[w] = "l132" => pc'[w] = "l135"
            /\ pc[w] = "l135" =>
                   /\ hist.obs[w].invoked = 0
                   /\ hist'.obs[w].invoked = 1
                   /\ hist'.reads = hist.reads + 1
                   /\ pc'[w] = (IF hist'.obs[w].failed THEN "l148" ELSE "l143")
                   /\ ~ hist'.obs[w].failed =>
                          frame'[w].records = Listing(frame[w].db_path, hist'.reads)
            /\ pc[w] = "l143" =>
                   /\ pc'[w] = "l144"
                   /\ TABLE_DATA' = <<frame[w].records, frame[w].field_names>>
            /\ pc[w] = "l144" =>
                   /\ pc'[w] = "l145"
                   /\ LAST_REFRESH' = now
            /\ pc[w] \in {"l145", "l148"} =>
                   /\ pc'[w] = "done"
                   /\ hist.obs[w].invoked = 1
    ]_vars

\* One call has refreshed a snapshot that had expired and returned what it
\* loaded; the call after it has returned that snapshot from the cache.
C16_Witness ==
    \E v, w \in Workers :
        /\ v # w
        /\ Returned(v) /\ Returned(w)
        /\ hist.obs[v].invoked = 1 /\ ~ hist.obs[v].failed
        /\ hist.obs[v].known # None
        /\ hist.fallback = None /\ ~ hist.first
        /\ ret[v] = TABLE_DATA
        /\ LAST_REFRESH >= StartTime + CACHE_TIMEOUT
        /\ hist.obs[w].invoked = 0
        /\ ret[w] = TABLE_DATA
        /\ TABLE_DATA # None
        /\ now - LAST_REFRESH < CACHE_TIMEOUT

\* C19: the first get_records call started after a settings update to the
\* location p has returned does not return from the cache (without calling
\* the table reader) data that was loaded from another location than p.
C19_NoOldLocationFromCache ==
    \A w \in Workers :
        (Returned(w) /\ hist.obs[w].afterSet # <<>>
                     /\ db_path = hist.obs[w].afterSet[1]
                     /\ hist.obs[w].invoked = 0
                     /\ ret[w] # None) =>
            ret[w][1].src = PathOrDefault(hist.obs[w].afterSet[1])

\* C11: export_word calls get_records once, and every row of the document
\* is looked up in the list that call returned, whatever other threads do
\* to the cache while the export runs.
C11_ExportPointInTime ==
    \A w \in Workers :
        xp[w].stage # "none" =>
            /\ xp[w].gets <= 1
            /\ (pc[w] = "l369" \/ xp[w].doc # <<>>) => xp[w].gets = 1
            /\ \A k \in 1..Len(xp[w].doc) :
                   \A j \in 1..Len(xp[w].doc[k].rows) :
                       xp[w].doc[k].rows[j].from = xp[w].records

\* An export has finished with rows in its document after another thread
\* cleared or replaced the cached snapshot the export had taken.
C11_Witness ==
    \E w \in Workers :
        /\ xp[w].stage = "finished"
        /\ ret[w] = <<200>>
        /\ \E k \in 1..Len(xp[w].doc) : xp[w].doc[k].rows # <<>>
        /\ xp[w].records # EmptyList
        /\ (TABLE_DATA = None \/ TABLE_DATA[1] # xp[w].records)

\* C12: the document has no section (header and table) for a group none of
\* whose members is in the snapshot, be it a group without members or a
\* group whose member ids are all absent from the snapshot.
C12_NoSectionWithoutRows ==
    \A w \in Workers :
        xp[w].stage # "none" =>
            \A k \in 1..Len(xp[w].doc) : xp[w].doc[k].rows # <<>>

\* C14: export_word answers 404 "No groups found" exactly when the store
\* holds no group, and then it has not called get_records and has no
\* document.
C14_NoGroupsOutcome ==
    \A w \in Workers :
        /\ xp[w].stage = "finished" => ((ret[w] = <<404>>) <=> (groups = {}))
        /\ (xp[w].stage # "none" /\ groups = {}) =>
               /\ xp[w].gets = 0
               /\ xp[w].doc = <<>>
               /\ hist.obs[w].invoked = 0
               /\ frame[w].op = "export_word"

C14_Witness ==
    \E w \in Workers :
        /\ xp[w].stage = "finished"
        /\ groups = {}
        /\ ret[w] = <<404>>
        /\ hist.reads = 0

\* C18: a section's number is the position of its group in get_groups, a
\* row's number is that group number and the position of its item in
\* get_group_items of the group, and sections and rows appear in these
\* orders.
C18_Numbering ==
    \A w \in Workers :
        xp[w].stage # "none" =>
            \A k \in 1..Len(xp[w].doc) :
                LET s == xp[w].doc[k]
                    items == get_group_items(s.id)
                IN /\ s.number \in 1..Len(get_groups)
                   /\ get_groups[s.number] = [id |-> s.id, name |-> s.name]
                   /\ k > 1 => xp[w].doc[k - 1].number < s.number
                   /\ \A j \in 1..Len(s.rows) :
                          /\ s.rows[j].number[1] = s.number
                          /\ s.rows[j].number[2] \in 1..Len(items)
                          /\ items[s.rows[j].number[2]] = s.rows[j].item
                          /\ j > 1 => s.rows[j - 1].number[2] < s.rows[j].number[2]

\* A finished export whose second group's table starts at row 2.2, its
\* item 1 not being in the snapshot, after the section of the first group.
C18_Witness ==
    \E w \in Workers :
        /\ xp[w].stage = "finished"
        /\ ret[w] = <<200>>
        /\ Len(xp[w].doc) = 2
        /\ xp[w].doc[1].number = 1 /\ xp[w].doc[1].name = "A"
        /\ xp[w].doc[2].number = 2 /\ xp[w].doc[2].name = "B"
        /\ xp[w].doc[2].rows # <<>>
        /\ xp[w].doc[2].rows[1].number = <<2, 2>>
        /\ xp[w].doc[2].rows[1].item = 2

====
